---- MODULE Spec2Model ----
(***************************************************************************)
(* Emission Atlas: a model of src/emission_atlas.py (the three operators   *)
(* Create Atlas, Revert Atlas, Unpack Atlas and the helpers they call) and *)
(* of the version handling of src/package_release.py.                      *)
(*                                                                         *)
(* Host data model (bpy): bpy.data.materials and bpy.data.images are       *)
(* name-keyed collections iterated in name order; every object owns its    *)
(* own mesh datablock, so obj.material_slots and obj.data.materials are    *)
(* the same list. Python floats are modelled as exact rationals <<n, d>>.  *)
(***************************************************************************)
EXTENDS Integers, Sequences, FiniteSets, TLC

VARIABLES
    materials,           \* bpy.data.materials, in iteration (name) order
    images,              \* bpy.data.images, in creation order
    objects,             \* object name -> [type, material_slots, faces]
    ORIGINAL_MATERIALS,  \* the module global: object name -> list of materials
    last,                \* what the operator that ran last returned
    creates,             \* number of Create Atlas runs that built an atlas
    call                 \* a pending or finished call of a pure function

vars == <<materials, images, objects, ORIGINAL_MATERIALS, last, creates, call>>

-----------------------------------------------------------------------------
(* Bounds of the model                                                     *)

MaxMats == 1        \* simple emission materials in the initial scene
MaxSlots == 1       \* material slots of object A in the initial scene
MaxCreates == 1     \* Create Atlas runs that build an atlas
LoopsPerFace == 3   \* loops (corners) of a face
SessionMats == 2    \* the same three bounds, for the longer sessions
SessionSlots == 2
SessionCreates == 2
ManyMats == 25      \* emission materials of the large scenes
MaxWidth == 4       \* atlas_width passed to create_texture_atlas on its own
MaxHeight == 2      \* atlas_height passed to create_texture_atlas on its own
MaxEntries == 3     \* entries of material_colors passed on its own
MaxParts == 3       \* parts of bl_info['version']
MaxPart == 9        \* largest part of bl_info['version']

(* Program constants                                                       *)

DEFAULT_ATLAS_WIDTH == 1024
DEFAULT_ATLAS_HEIGHT == 256

\* Python's None, also an empty material slot and an unset node input
None == <<>>

-----------------------------------------------------------------------------
(* Exact rationals <<n, d>>, d > 0, for Python's float arithmetic          *)

RECURSIVE GCD(_, _)
GCD(a, b) == IF b = 0 THEN a ELSE GCD(b, a % b)

Abs(a) == IF a < 0 THEN -a ELSE a

Rat(n, d) ==
    LET g == GCD(Abs(n), d) IN IF g = 0 THEN <<0, 1>> ELSE <<n \div g, d \div g>>

RInt(n) == <<n, 1>>
RAdd(a, b) == Rat(a[1] * b[2] + b[1] * a[2], a[2] * b[2])
RMul(a, b) == Rat(a[1] * b[1], a[2] * b[2])
\* a / b for b > 0
RDiv(a, b) == Rat(a[1] * b[2], a[2] * b[1])
RLess(a, b) == a[1] * b[2] < b[1] * a[2]
\* a // 1 for floats, int(a) for a >= 0
RFloor(a) == a[1] \div a[2]

Half == <<1, 2>>

-----------------------------------------------------------------------------
(* Strings as sequences of characters; str() and int() on naturals         *)

DigitChars == <<"0", "1", "2", "3", "4", "5", "6", "7", "8", "9">>

RECURSIVE Str(_)
Str(n) ==
    IF n < 10 THEN <<DigitChars[n + 1]>>
    ELSE Str(n \div 10) \o <<DigitChars[(n % 10) + 1]>>

DigitValue(c) == CHOOSE d \in 0..9 : DigitChars[d + 1] = c

RECURSIVE ParseInt(_)
ParseInt(s) ==
    IF Len(s) = 1 THEN DigitValue(s[1])
    ELSE 10 * ParseInt(SubSeq(s, 1, Len(s) - 1)) + DigitValue(s[Len(s)])

\* sep.join(parts)
RECURSIVE Join(_, _)
Join(sep, parts) ==
    IF parts = <<>> THEN <<>>
    ELSE IF Len(parts) = 1 THEN parts[1]
    ELSE parts[1] \o <<sep>> \o Join(sep, Tail(parts))

\* s.split(sep): always at least one (possibly empty) part
RECURSIVE Split(_, _)
Split(s, sep) ==
    IF \A k \in 1..Len(s) : s[k] # sep THEN <<s>>
    ELSE LET k == CHOOSE j \in 1..Len(s) :
                      s[j] = sep /\ \A h \in 1..(j - 1) : s[h] # sep
         IN <<SubSeq(s, 1, k - 1)>> \o Split(SubSeq(s, k + 1, Len(s)), sep)

-----------------------------------------------------------------------------
(* Names of datablocks: <<base, suffix>>, the suffix a string              *)

CharRank(c) == IF c = "." THEN 0 ELSE 1 + DigitValue(c)

\* lexicographic order on suffixes (a proper prefix sorts first)
RECURSIVE SuffixLess(_, _)
SuffixLess(a, b) ==
    IF b = <<>> THEN FALSE
    ELSE IF a = <<>> THEN TRUE
    ELSE IF a[1] # b[1] THEN CharRank(a[1]) < CharRank(b[1])
    ELSE SuffixLess(Tail(a), Tail(b))

BaseRank(base) ==
    CASE base = "AtlasMaterial" -> 1
      [] base = "Material" -> 2
      [] base = "UnpackedAtlasColor_" -> 3

\* the order in which the host iterates a collection of datablocks
NameLess(a, b) ==
    IF a[1] # b[1] THEN BaseRank(a[1]) < BaseRank(b[1]) ELSE SuffixLess(a[2], b[2])

\* the suffix the host appends to make a name unique: "", ".001", ".002", ...
DupSuffix(k) ==
    IF k = 0 THEN <<>>
    ELSE LET d == Str(k)
         IN <<".">> \o SubSeq(<<"0", "0">>, 1, 3 - Len(d)) \o d

\* <collection>.new(name=base): the first free name base, base.001, ...
NewName(base, taken) ==
    LET k == CHOOSE j \in 0..Cardinality(taken) :
                 /\ <<base, DupSuffix(j)>> \notin taken
                 /\ \A h \in 0..(j - 1) : <<base, DupSuffix(h)>> \in taken
    IN <<base, DupSuffix(k)>>

Range(s) == {s[k] : k \in 1..Len(s)}

MaterialNames(mats) == {mats[k].name : k \in 1..Len(mats)}

\* bpy.data.materials[name]
MaterialNamed(mats, name) ==
    mats[CHOOSE k \in 1..Len(mats) : mats[k].name = name]

\* bpy.data.materials.new(...) followed by the node setup: the collection
\* with the new material at its place in name order
AddMaterial(mats, m) ==
    LET before == SelectSeq(mats, LAMBDA x : NameLess(x.name, m.name))
        after == SelectSeq(mats, LAMBDA x : ~NameLess(x.name, m.name))
    IN before \o <<m>> \o after

-----------------------------------------------------------------------------
(* Shader nodes and materials                                              *)

\* Color default_value of a freshly created Emission node (white)
NewEmissionColor == <<1, 1, 1>>

EmissionNode(rgb) == [type |-> "EMISSION", color |-> rgb, image |-> None]
TexImageNode(img) == [type |-> "TEX_IMAGE", color |-> None, image |-> img]
OutputNode == [type |-> "OUTPUT_MATERIAL", color |-> None, image |-> None]

Material(name, use_nodes, nodes) ==
    [name |-> name, use_nodes |-> use_nodes, nodes |-> nodes]

HasNode(nodes, type) == \E k \in 1..Len(nodes) : nodes[k].type = type

\* the first node of the given type (the loop that breaks at the first hit)
FirstNode(nodes, type) ==
    nodes[CHOOSE k \in 1..Len(nodes) :
              /\ nodes[k].type = type
              /\ \A h \in 1..(k - 1) : nodes[h].type # type]

\* HasEmission without the use_nodes test
HasEmission_any(mat) == HasNode(mat.nodes, "EMISSION")

HasEmission(mat) == mat.use_nodes /\ HasNode(mat.nodes, "EMISSION")

\* the dict returned, as the list of its items <<name, color>> in insertion
\* order
get_simple_emission_materials(mats) ==
    LET found == SelectSeq(mats, HasEmission)
    IN [k \in 1..Len(found) |->
           <<found[k].name, FirstNode(found[k].nodes, "EMISSION").color>>]

create_atlas_material(texture, mats) ==
    Material(NewName("AtlasMaterial", MaterialNames(mats)), TRUE,
             <<TexImageNode(texture.name), EmissionNode(NewEmissionColor),
               OutputNode>>)

create_single_color_emission_material(name, color) ==
    Material(name, TRUE, <<EmissionNode(<<color[1], color[2], color[3]>>),
                           OutputNode>>)

-----------------------------------------------------------------------------
(* Images and the atlas                                                    *)

NoImage == [name |-> None]

ImageNames(imgs) == {imgs[k].name : k \in 1..Len(imgs)}

ImageNamed(imgs, name) ==
    imgs[CHOOSE k \in 1..Len(imgs) : imgs[k].name = name]

\* The image create_texture_atlas returns (NoImage for its None). The pixel
\* buffer is kept as the list of column fills the loops perform (the colour
\* of every material and the column width); PixelAt reads a pixel back from
\* those fills.
create_texture_atlas(material_colors, atlas_width, atlas_height, imgs) ==
    LET mat_count == Len(material_colors)
        column_width == atlas_width \div mat_count
    IN IF mat_count = 0 THEN NoImage
       ELSE [name |-> NewName("Emission_Atlas", ImageNames(imgs)),
             size |-> <<atlas_width, atlas_height>>,
             pixels |-> [colors |-> [k \in 1..mat_count |-> material_colors[k][2]],
                         column_width |-> column_width],
             props |-> [atlas_columns |-> mat_count]]

\* whether the fill loop of material i (0-based) writes pixel number px:
\* px = (y * atlas_width) + (x_start + x) for an x in range(column_width)
\* and a y in range(atlas_height). As column_width <= atlas_width, the only
\* candidates are y = t // atlas_width and x = t % atlas_width for
\* t = px - x_start.
FillWrites(img, i, px) ==
    LET t == px - (i * img.pixels.column_width)
    IN /\ t >= 0
       /\ (t \div img.size[1]) < img.size[2]
       /\ (t % img.size[1]) < img.pixels.column_width

\* the materials (0-based) whose fill loop writes pixel number px
Writers(img, px) ==
    {i \in 0..(Len(img.pixels.colors) - 1) : FillWrites(img, i, px)}

SetMax(S) == CHOOSE m \in S : \A k \in S : k <= m

\* pixel number px of img.pixels as <<R, G, B, A>>: the last fill that wrote
\* it, or the blank buffer's zeros
PixelAt(img, px) ==
    LET w == Writers(img, px)
    IN IF w = {} THEN <<0, 0, 0, 0>>
       ELSE LET color == img.pixels.colors[SetMax(w) + 1]
            IN <<color[1], color[2], color[3], 1>>

\* list(img.pixels)[index]
PixelBuffer(img, index) == PixelAt(img, index \div 4)[(index % 4) + 1]

-----------------------------------------------------------------------------
(* Meshes: faces, loops and UVs                                            *)

UV(u, v) == <<u, v>>

Face(material_index, loops) == [material_index |-> material_index, loops |-> loops]

IndexOf(keys, name) == (CHOOSE k \in 1..Len(keys) : keys[k] = name) - 1

\* the UV remap_uvs gives the loops of a face of material number i
ColumnCenterUV(i, mat_count, atlas_width) ==
    LET column_width == RDiv(RInt(atlas_width), RInt(mat_count))
        u_min == RDiv(RMul(RInt(i), column_width), RInt(atlas_width))
        u_max == RDiv(RMul(RInt(i + 1), column_width), RInt(atlas_width))
        u_center == RMul(RAdd(u_min, u_max), Half)
        v_center == Half
    IN UV(u_center, v_center)

\* the faces of obj after remap_uvs; mat_index_map is given by its keys in
\* index order
remap_uvs(obj, mat_index_map, atlas_width, atlas_height) ==
    LET mat_count == Len(mat_index_map)
        Remap(face) ==
            IF face.material_index < Len(obj.material_slots)
            THEN LET mat == obj.material_slots[face.material_index + 1]
                 IN IF mat # None /\ mat \in Range(mat_index_map)
                    THEN [face EXCEPT !.loops =
                             [l \in 1..Len(face.loops) |->
                                 ColumnCenterUV(IndexOf(mat_index_map, mat),
                                                mat_count, atlas_width)]]
                    ELSE face
            ELSE face
    IN IF mat_count = 0 THEN obj.faces
       ELSE [f \in 1..Len(obj.faces) |-> Remap(obj.faces[f])]

-----------------------------------------------------------------------------
(* The scene and the operators                                             *)

Objects == {"A", "B", "C"}

\* the order of context.selected_objects
ObjectOrder == <<"A", "B", "C">>

World == [materials |-> materials, images |-> images, objects |-> objects,
          ORIGINAL_MATERIALS |-> ORIGINAL_MATERIALS]

IsMesh(w, o) == w.objects[o].type = "MESH"

\* SelectedMeshes without the type test
SelectedMeshes_all(w, selected) == selected

\* the objects the loop of Create Atlas works on
SelectedMeshes(w, selected) == {o \in selected : IsMesh(w, o)}

\* StoreOriginals without the clear()
StoreOriginals_keep(original, w, meshes) ==
    [o \in meshes \cup DOMAIN original |->
        IF o \in meshes THEN w.objects[o].material_slots ELSE original[o]]

\* ORIGINAL_MATERIALS after clear() and the stores of the loop
StoreOriginals(original, w, meshes) ==
    [o \in meshes |-> w.objects[o].material_slots]

\* ConvertToEmissionAtlas.execute: the world after it and what it returns
ConvertExecute(w, selected) ==
    LET emission == get_simple_emission_materials(w.materials)
        mat_index_map == [k \in 1..Len(emission) |-> emission[k][1]]
        atlas == create_texture_atlas(emission, DEFAULT_ATLAS_WIDTH,
                                      DEFAULT_ATLAS_HEIGHT, w.images)
        atlas_mat == create_atlas_material(atlas, w.materials)
        meshes == SelectedMeshes(w, selected)
    IN IF Len(emission) = 0 THEN [w |-> w, ret |-> "CANCELLED"]
       ELSE IF atlas.name = None THEN [w |-> w, ret |-> "CANCELLED"]
       ELSE [w |-> [materials |-> AddMaterial(w.materials, atlas_mat),
                    images |-> Append(w.images, atlas),
                    ORIGINAL_MATERIALS |->
                        StoreOriginals(w.ORIGINAL_MATERIALS, w, meshes),
                    objects |->
                        [o \in Objects |->
                            IF o \in meshes
                            THEN [w.objects[o] EXCEPT
                                     !.faces = remap_uvs(w.objects[o], mat_index_map,
                                                         atlas.size[1], atlas.size[2]),
                                     !.material_slots = <<atlas_mat.name>>]
                            ELSE w.objects[o]]],
             ret |-> "FINISHED"]

\* the materials RevertEmissionAtlas.execute appends back
RevertedSlots(mat_list, mats) ==
    SelectSeq(mat_list, LAMBDA mat : mat # None /\ mat \in MaterialNames(mats))

\* RevertEmissionAtlas.execute
RevertExecute(w, selected) ==
    IF DOMAIN w.ORIGINAL_MATERIALS = {} THEN [w |-> w, ret |-> "CANCELLED"]
    ELSE [w |-> [w EXCEPT !.objects =
                    [o \in Objects |->
                        IF /\ o \in selected
                           /\ o \in DOMAIN w.ORIGINAL_MATERIALS
                           /\ IsMesh(w, o)
                        THEN [w.objects[o] EXCEPT !.material_slots =
                                 RevertedSlots(w.ORIGINAL_MATERIALS[o], w.materials)]
                        ELSE w.objects[o]]],
          ret |-> "FINISHED"]

\* whether a node is an image texture whose image carries "atlas_columns"
IsAtlasNode(node, imgs) ==
    /\ node.type = "TEX_IMAGE"
    /\ node.image # None
    /\ "atlas_columns" \in DOMAIN ImageNamed(imgs, node.image).props

\* whether the material of a slot references an atlas image
IsAtlasSlot(slot, w) ==
    /\ slot # None
    /\ LET mat == MaterialNamed(w.materials, slot)
       IN /\ mat.use_nodes
          /\ \E k \in 1..Len(mat.nodes) : IsAtlasNode(mat.nodes[k], w.images)

\* HasAtlas that also wants stored original materials
HasAtlas_stored(obj, w) ==
    /\ DOMAIN w.ORIGINAL_MATERIALS # {}
    /\ \E k \in 1..Len(obj.material_slots) : IsAtlasSlot(obj.material_slots[k], w)

HasAtlas(obj, w) ==
    \E k \in 1..Len(obj.material_slots) : IsAtlasSlot(obj.material_slots[k], w)

\* atlas_image: the image of the first atlas node of the first slot that
\* has one
FindAtlasImage(obj, w) ==
    LET slot_idx == CHOOSE k \in 1..Len(obj.material_slots) :
                        /\ IsAtlasSlot(obj.material_slots[k], w)
                        /\ \A h \in 1..(k - 1) : ~IsAtlasSlot(obj.material_slots[h], w)
        nodes == MaterialNamed(w.materials, obj.material_slots[slot_idx]).nodes
        node == nodes[CHOOSE k \in 1..Len(nodes) :
                          /\ IsAtlasNode(nodes[k], w.images)
                          /\ \A h \in 1..(k - 1) : ~IsAtlasNode(nodes[h], w.images)]
    IN ImageNamed(w.images, node.image)

AtlasColumns(atlas_image) ==
    IF atlas_image.props.atlas_columns < 1 THEN 1
    ELSE atlas_image.props.atlas_columns

\* (r, g, b) sampled at the centre of column i
SampleColumn(atlas_image, i) ==
    LET atlas_width == atlas_image.size[1]
        atlas_height == atlas_image.size[2]
        column_width == atlas_width \div AtlasColumns(atlas_image)
        center_x == RFloor(RMul(RAdd(RInt(i), Half), RInt(column_width)))
        center_y == atlas_height \div 2
        px_index == ((center_y * atlas_width) + center_x) * 4
    IN <<PixelBuffer(atlas_image, px_index + 0),
         PixelBuffer(atlas_image, px_index + 1),
         PixelBuffer(atlas_image, px_index + 2)>>

UnpackedName(i) == <<"UnpackedAtlasColor_", Str(i)>>

\* new_mat for column i: the material of that name when there is one,
\* a new one of the sampled colour otherwise
UnpackedMaterial(atlas_image, i, mats) ==
    IF UnpackedName(i) \in MaterialNames(mats)
    THEN MaterialNamed(mats, UnpackedName(i))
    ELSE create_single_color_emission_material(UnpackedName(i),
                                               SampleColumn(atlas_image, i))

\* bpy.data.materials after the loop over the columns i, i + 1, ...
RECURSIVE UnpackMaterials(_, _, _)
UnpackMaterials(atlas_image, i, mats) ==
    IF i >= AtlasColumns(atlas_image) THEN mats
    ELSE UnpackMaterials(atlas_image, i + 1,
             IF UnpackedName(i) \in MaterialNames(mats) THEN mats
             ELSE AddMaterial(mats, UnpackedMaterial(atlas_image, i, mats)))

\* col_index of a face from the UV of its first loop
FaceColumn(face, atlas_width, columns) ==
    LET column_width_float == RDiv(RInt(atlas_width), RInt(columns))
        uv == face.loops[1]
        x_raw == RMul(uv[1], RInt(atlas_width))
        x_pix == IF RLess(x_raw, RInt(0)) THEN RInt(0)
                 ELSE IF ~RLess(x_raw, RInt(atlas_width)) THEN RInt(atlas_width - 1)
                 ELSE x_raw
        col_raw == RFloor(RDiv(x_pix, column_width_float))
    IN IF col_raw < 0 THEN 0
       ELSE IF col_raw >= columns THEN columns - 1
       ELSE col_raw

ReclassifyFace(face, atlas_width, columns) ==
    IF Len(face.loops) = 0 THEN face
    ELSE [face EXCEPT !.material_index = FaceColumn(face, atlas_width, columns)]

\* one pass of the loop over the selected objects; st = [w, sets], sets the
\* dict created_material_sets
UnpackObject(st, o) ==
    LET w == st.w
        obj == w.objects[o]
        atlas_image == FindAtlasImage(obj, w)
        columns == AtlasColumns(atlas_image)
        fresh == atlas_image.name \notin DOMAIN st.sets
        mats == IF fresh THEN UnpackMaterials(atlas_image, 0, w.materials)
                ELSE w.materials
        new_mats == [k \in 1..columns |-> UnpackedName(k - 1)]
        sets == IF fresh
                THEN [n \in DOMAIN st.sets \cup {atlas_image.name} |->
                         IF n = atlas_image.name THEN new_mats ELSE st.sets[n]]
                ELSE st.sets
    IN IF obj.type # "MESH" THEN st
       ELSE IF ~HasAtlas(obj, w) THEN st
       ELSE [w |-> [w EXCEPT
                       !.materials = mats,
                       !.objects[o] =
                           [obj EXCEPT
                               !.material_slots = sets[atlas_image.name],
                               !.faces = [f \in 1..Len(obj.faces) |->
                                             ReclassifyFace(obj.faces[f],
                                                 atlas_image.size[1], columns)]]],
             sets |-> sets]

RECURSIVE UnpackLoop(_, _)
UnpackLoop(st, objs) ==
    IF objs = <<>> THEN st
    ELSE UnpackLoop(UnpackObject(st, Head(objs)), Tail(objs))

\* UnpackEmissionAtlas.execute
UnpackExecute(w, selected) ==
    LET selected_objects == SelectSeq(ObjectOrder, LAMBDA o : o \in selected)
    IN [w |-> UnpackLoop([w |-> w, sets |-> <<>>], selected_objects).w,
        ret |-> "FINISHED"]

-----------------------------------------------------------------------------
(* Initial scenes                                                          *)

Palette == << <<1, 0, 0>>, <<0, 1, 0>>, <<0, 0, 1>> >>

PaletteColor(k) == Palette[(k % Len(Palette)) + 1]

\* n materials with one Emission node of a constant colour, and one
\* material that has such a node but does not use nodes
InitialMaterials(n) ==
    [k \in 1..(n + 1) |->
        IF k <= n
        THEN Material(<<"Material", DupSuffix(k - 1)>>, TRUE,
                      <<EmissionNode(PaletteColor(k - 1)), OutputNode>>)
        ELSE Material(<<"Material", DupSuffix(k - 1)>>, FALSE,
                      <<EmissionNode(PaletteColor(k - 1)), OutputNode>>)]

SlotLists(names, maxlen) ==
    UNION {[1..k -> names \cup {None}] : k \in 0..maxlen}

\* count faces, face f of material_index f - 1, every loop at its own UV
InitialFaces(count) ==
    [f \in 1..count |->
        Face(f - 1, [l \in 1..LoopsPerFace |->
                        UV(Rat(l - 1, LoopsPerFace), Rat(f, count + 1))])]

MeshObject(slots, faces) ==
    [type |-> "MESH", material_slots |-> slots, faces |-> faces]

CurveObject(slots) ==
    [type |-> "CURVE", material_slots |-> slots, faces |-> <<>>]

NoOperator == "none"

NoCall == [fn |-> "none"]

\* a scene of n emission materials and one material without nodes: mesh A
\* with any slot list, mesh B and curve C using the first material
Scene(n, maxSlots) ==
    /\ materials = InitialMaterials(n)
    /\ \E slots \in SlotLists(MaterialNames(InitialMaterials(n)), maxSlots) :
        objects = [o \in Objects |->
                      CASE o = "A" -> MeshObject(slots, InitialFaces(maxSlots))
                        [] o = "B" -> MeshObject(<<InitialMaterials(n)[1].name>>,
                                                 InitialFaces(maxSlots))
                        [] o = "C" -> CurveObject(<<InitialMaterials(n)[1].name>>)]

\* a scene of n emission materials in which the one face of mesh A uses
\* the first or the last of them
LargeScene(n) ==
    /\ materials = InitialMaterials(n)
    /\ \E k \in {1, n} :
        objects = [o \in Objects |->
                      CASE o = "A" -> MeshObject(<<InitialMaterials(n)[k].name>>,
                                                 InitialFaces(1))
                        [] o = "B" -> MeshObject(<<>>, InitialFaces(1))
                        [] o = "C" -> CurveObject(<<>>)]

FreshSession ==
    /\ images = <<>>
    /\ ORIGINAL_MATERIALS = <<>>
    /\ last = NoOperator
    /\ creates = 0

Init ==
    /\ \E n \in 0..MaxMats : Scene(n, MaxSlots)
    /\ FreshSession
    /\ call = NoCall

InitSession ==
    /\ \E n \in 0..SessionMats : Scene(n, SessionSlots)
    /\ FreshSession
    /\ call = NoCall

InitLarge ==
    /\ \E n \in 1..ManyMats : LargeScene(n)
    /\ FreshSession
    /\ call = NoCall

-----------------------------------------------------------------------------
(* Actions: the user runs an operator on a selection                       *)

SetWorld(w) ==
    /\ materials' = w.materials
    /\ images' = w.images
    /\ objects' = w.objects
    /\ ORIGINAL_MATERIALS' = w.ORIGINAL_MATERIALS

CreateAtlas(selected, cap) ==
    /\ creates < cap
    /\ LET r == ConvertExecute(World, selected)
       IN /\ SetWorld(r.w)
          /\ last' = r.ret
          /\ creates' = IF r.ret = "FINISHED" THEN creates + 1 ELSE creates
    /\ UNCHANGED call

RevertAtlas(selected) ==
    /\ LET r == RevertExecute(World, selected)
       IN /\ SetWorld(r.w)
          /\ last' = r.ret
    /\ UNCHANGED <<creates, call>>

UnpackAtlas(selected) ==
    /\ LET r == UnpackExecute(World, selected)
       IN /\ SetWorld(r.w)
          /\ last' = r.ret
    /\ UNCHANGED <<creates, call>>

Next ==
    \E selected \in SUBSET Objects :
        \/ CreateAtlas(selected, MaxCreates)
        \/ RevertAtlas(selected)
        \/ UnpackAtlas(selected)

NextSession ==
    \E selected \in SUBSET Objects :
        \/ CreateAtlas(selected, SessionCreates)
        \/ RevertAtlas(selected)
        \/ UnpackAtlas(selected)

Spec == Init /\ [][Next]_vars

\* longer sessions on richer scenes
SpecSession == InitSession /\ [][NextSession]_vars

\* scenes of many emission materials
SpecLarge == InitLarge /\ [][Next]_vars

-----------------------------------------------------------------------------
(* create_texture_atlas called on its own                                  *)

\* material_colors of n entries, every colour any colour of the palette
MaterialColors(n) ==
    {[k \in 1..n |-> <<<<"Material", DupSuffix(k - 1)>>, colors[k]>>] :
        colors \in [1..n -> Range(Palette)]}

EmptyScene ==
    /\ materials = <<>>
    /\ objects = [o \in Objects |-> CurveObject(<<>>)]
    /\ FreshSession

InitAtlas ==
    /\ EmptyScene
    /\ \E n \in 0..MaxEntries, atlas_width \in 1..MaxWidth,
          atlas_height \in 1..MaxHeight :
        \E material_colors \in MaterialColors(n) :
            call = [fn |-> "create_texture_atlas",
                    material_colors |-> material_colors,
                    atlas_width |-> atlas_width,
                    atlas_height |-> atlas_height,
                    done |-> FALSE,
                    img |-> NoImage]

CallAtlas ==
    /\ call.fn = "create_texture_atlas"
    /\ ~call.done
    /\ call' = [call EXCEPT
                   !.done = TRUE,
                   !.img = create_texture_atlas(call.material_colors,
                               call.atlas_width, call.atlas_height, images)]
    /\ UNCHANGED <<materials, images, objects, ORIGINAL_MATERIALS, last, creates>>

SpecAtlas == InitAtlas /\ [][CallAtlas]_vars

-----------------------------------------------------------------------------
(* Claims about the atlas layout and the UV remap                          *)

\* the emission material number (0-based) of the material in the slot a
\* face uses, or -1 when the face uses none
FaceEmissionIndex(obj, face, emission) ==
    IF /\ face.material_index < Len(obj.material_slots)
       /\ \E k \in 1..Len(emission) :
              emission[k][1] = obj.material_slots[face.material_index + 1]
    THEN (CHOOSE k \in 1..Len(emission) :
              emission[k][1] = obj.material_slots[face.material_index + 1]) - 1
    ELSE -1

\* the pixel number a UV samples: column floor(u * width), row floor(v * height)
SampledPixel(uv, img) ==
    (RFloor(RMul(uv[2], RInt(img.size[2]))) * img.size[1])
        + RFloor(RMul(uv[1], RInt(img.size[1])))

OpaqueColor(color) == <<color[1], color[2], color[3], 1>>

\* C1: whenever Create Atlas finishes, every loop of every face of a
\* selected mesh whose slot material is emission material number i gets a UV
\* whose pixel was filled by material i's column and holds material i's colour.
C1_FacesSampleOwnColumn ==
    \A selected \in SUBSET Objects :
        LET r == ConvertExecute(World, selected)
            emission == get_simple_emission_materials(materials)
            atlas == r.w.images[Len(r.w.images)]
        IN r.ret = "FINISHED" =>
            \A o \in SelectedMeshes(World, selected) :
                \A f \in 1..Len(objects[o].faces) :
                    LET i == FaceEmissionIndex(objects[o], objects[o].faces[f], emission)
                        loops == r.w.objects[o].faces[f].loops
                    IN i >= 0 =>
                        \A l \in 1..Len(loops) :
                            /\ i \in Writers(atlas, SampledPixel(loops[l], atlas))
                            /\ PixelAt(atlas, SampledPixel(loops[l], atlas))
                                   = OpaqueColor(emission[i + 1][2])

\* C2: for a non-empty material_colors of n entries, every material i has
\* the non-empty column x in [i * (width // n), (i + 1) * (width // n)) over
\* every row, each of its pixels holds material i's RGB with alpha 1.0 and is
\* written for no other material, and atlas_columns is n.
C2_OneColumnPerMaterial ==
    (call.fn = "create_texture_atlas" /\ call.done
        /\ Len(call.material_colors) >= 1) =>
        LET n == Len(call.material_colors)
            width == call.atlas_width
            column == width \div n
        IN /\ call.img.name # None
           /\ call.img.props.atlas_columns = n
           /\ \A i \in 0..(n - 1) :
                /\ i * column < (i + 1) * column
                /\ \A x \in (i * column)..(((i + 1) * column) - 1) :
                     \A y \in 0..(call.atlas_height - 1) :
                        /\ PixelAt(call.img, (y * width) + x)
                               = OpaqueColor(call.material_colors[i + 1][2])
                        /\ Writers(call.img, (y * width) + x) = {i}

-----------------------------------------------------------------------------
(* The packaging script: the version of the build                          *)

\* None where a string is expected
NoString == <<"None">>

\* bl_info['version'] tuples
VersionTuples == UNION {[1..k -> 0..MaxPart] : k \in 1..MaxParts}

\* what the script finds in emission_atlas.py: no bl_info assignment, one
\* that is no literal, a bl_info without 'version', or one with a version
ScriptFiles ==
    {[bl_info |-> "no match"], [bl_info |-> "not a literal"],
     [bl_info |-> "no version"]}
        \cup {[bl_info |-> "dict", version |-> t] : t \in VersionTuples}

\* ".".join(map(str, t))
DottedString(t) == Join(".", [k \in 1..Len(t) |-> Str(t[k])])

get_version(file) ==
    CASE file.bl_info = "no match" -> NoString
      [] file.bl_info = "not a literal" -> NoString
      [] file.bl_info = "no version" -> DottedString(<<0, 0, 0>>)
      [] file.bl_info = "dict" -> DottedString(file.version)

\* increment_version raising the first part instead of the last
increment_version_first(version) ==
    IF version = NoString THEN <<"0", ".", "0", ".", "1">>
    ELSE LET parts == Split(version, ".")
             bumped == [parts EXCEPT ![1] = Str(ParseInt(parts[1]) + 1)]
         IN Join(".", bumped)

increment_version(version) ==
    IF version = NoString THEN <<"0", ".", "0", ".", "1">>
    ELSE LET parts == Split(version, ".")
             bumped == [parts EXCEPT ![Len(parts)] = Str(ParseInt(parts[Len(parts)]) + 1)]
         IN Join(".", bumped)

\* the value of --version=..., or NoString without the argument
VersionArguments == {NoString, <<"2", ".", "0">>}

InitPackage ==
    /\ EmptyScene
    /\ \E file \in ScriptFiles, argument \in VersionArguments :
        call = [fn |-> "main", file |-> file, argument |-> argument,
                done |-> FALSE, version |-> NoString]

\* main, up to the version it builds
CallMain ==
    /\ call.fn = "main"
    /\ ~call.done
    /\ call' = [call EXCEPT
                   !.done = TRUE,
                   !.version = IF call.argument = NoString
                               THEN increment_version(get_version(call.file))
                               ELSE call.argument]
    /\ UNCHANGED <<materials, images, objects, ORIGINAL_MATERIALS, last, creates>>

SpecPackage == InitPackage /\ [][CallMain]_vars

\* the parts of a dotted version string as numbers
VersionNumbers(version) ==
    LET parts == Split(version, ".") IN [k \in 1..Len(parts) |-> ParseInt(parts[k])]

-----------------------------------------------------------------------------
(* Claims about the operators                                              *)

\* a material of one Emission node of the given colour
IsSingleColor(mat, color) ==
    /\ mat.use_nodes
    /\ \E k \in 1..Len(mat.nodes) : mat.nodes[k].type = "EMISSION"
    /\ \A k \in 1..Len(mat.nodes) :
           mat.nodes[k].type = "EMISSION" => mat.nodes[k].color = color

\* whether slot number index (0-based) of obj holds a single-colour
\* emission material of the given colour
SlotHasColor(obj, index, mats, color) ==
    /\ index < Len(obj.material_slots)
    /\ obj.material_slots[index + 1] # None
    /\ IsSingleColor(MaterialNamed(mats, obj.material_slots[index + 1]), color)

\* C3: Create Atlas then Unpack Atlas on the same selection: every face of
\* a selected mesh that used emission material number i before ends with a
\* material_index whose slot holds a single-colour emission material of the
\* colour material i had.
C3_CreateUnpackRoundTrip ==
    \A selected \in SUBSET Objects :
        LET created == ConvertExecute(World, selected)
            unpacked == UnpackExecute(created.w, selected)
            emission == get_simple_emission_materials(materials)
        IN created.ret = "FINISHED" =>
            \A o \in SelectedMeshes(World, selected) :
                \A f \in 1..Len(objects[o].faces) :
                    LET i == FaceEmissionIndex(objects[o], objects[o].faces[f], emission)
                    IN i >= 0 =>
                        SlotHasColor(unpacked.w.objects[o],
                                     unpacked.w.objects[o].faces[f].material_index,
                                     unpacked.w.materials, emission[i + 1][2])

\* the RGB of the pixel at the centre of column i:
\* x = int((i + 0.5) * (width // c)), y = height // 2
CenterColor(img, i) ==
    LET column == img.size[1] \div img.props.atlas_columns
        x == (((2 * i) + 1) * column) \div 2
        pixel == PixelAt(img, ((img.size[2] \div 2) * img.size[1]) + x)
    IN <<pixel[1], pixel[2], pixel[3]>>

\* C4: whenever Unpack Atlas processes an object carrying an atlas image of
\* c columns, the material it places in slot i (0 <= i < c) is a
\* single-colour emission material of the colour of the pixel at the centre
\* of column i of that image.
C4_UnpackedColorsAreSampled ==
    \A selected \in SUBSET Objects :
        LET unpacked == UnpackExecute(World, selected)
        IN \A o \in SelectedMeshes(World, selected) :
               HasAtlas(objects[o], World) =>
                   LET img == FindAtlasImage(objects[o], World)
                   IN \A i \in 0..(img.props.atlas_columns - 1) :
                          SlotHasColor(unpacked.w.objects[o], i, unpacked.w.materials,
                                       CenterColor(img, i))

\* C5: Create Atlas then Revert Atlas on the same selection: every selected
\* mesh ends with exactly the slot list it had before Create, empty slots
\* included.
C5_CreateRevertRoundTrip ==
    \A selected \in SUBSET Objects :
        LET created == ConvertExecute(World, selected)
            reverted == RevertExecute(created.w, selected)
        IN created.ret = "FINISHED" =>
            \A o \in SelectedMeshes(World, selected) :
                reverted.w.objects[o].material_slots = objects[o].material_slots

OtherOriginals ==
    {<<>>, [o \in {"A"} |-> <<>>], [o \in Objects |-> objects[o].material_slots]}

\* C7: Unpack Atlas gives every object the same slots and face material
\* indices whatever ORIGINAL_MATERIALS holds (nothing included), and leaves
\* ORIGINAL_MATERIALS as it is.
C7_UnpackIgnoresRevertMap ==
    \A selected \in SUBSET Objects :
        LET here == UnpackExecute(World, selected)
        IN /\ here.w.ORIGINAL_MATERIALS = ORIGINAL_MATERIALS
           /\ \A other \in OtherOriginals :
                LET there == UnpackExecute(
                                 [World EXCEPT !.ORIGINAL_MATERIALS = other], selected)
                IN /\ there.w.objects = here.w.objects
                   /\ there.w.materials = here.w.materials
                   /\ there.ret = here.ret
                   /\ there.w.ORIGINAL_MATERIALS = other

\* Unpack Atlas has given a mesh its unpacked materials while
\* ORIGINAL_MATERIALS holds entries
C7_Witness ==
    /\ last = "FINISHED"
    /\ DOMAIN ORIGINAL_MATERIALS # {}
    /\ \E o \in Objects :
        /\ objects[o].material_slots # <<>>
        /\ objects[o].material_slots[1] = UnpackedName(0)

NoSimpleEmission ==
    \A k \in 1..Len(materials) :
        ~(materials[k].use_nodes
            /\ \E j \in 1..Len(materials[k].nodes) :
                   materials[k].nodes[j].type = "EMISSION")

\* C10: without a simple emission material Create Atlas returns CANCELLED
\* and leaves ORIGINAL_MATERIALS, images, materials and objects as they are;
\* with ORIGINAL_MATERIALS empty Revert Atlas returns CANCELLED and leaves
\* every object's slots as they are.
C10_CancelledChangesNothing ==
    \A selected \in SUBSET Objects :
        /\ NoSimpleEmission =>
               ConvertExecute(World, selected) = [w |-> World, ret |-> "CANCELLED"]
        /\ DOMAIN ORIGINAL_MATERIALS = {} =>
               /\ RevertExecute(World, selected).ret = "CANCELLED"
               /\ RevertExecute(World, selected).w.objects = objects

\* an operator was cancelled in a scene without emission material and with
\* ORIGINAL_MATERIALS empty, where Create Atlas and Revert Atlas both cancel
C10_Witness ==
    /\ last = "CANCELLED"
    /\ NoSimpleEmission
    /\ DOMAIN ORIGINAL_MATERIALS = {}
    /\ \E o \in Objects : objects[o].material_slots # <<>>

====
